---- MODULE Spec2Model ----
(***************************************************************************)
(* The run_games management command of Santa20-Local-Contest:              *)
(* choice_agents_for_game (rating-weighted matchmaking), run_game (one     *)
(* match against the Agent and Game tables and the simulation engine) and  *)
(* find_new_scores / expected_scores (the Elo update).                     *)
(*                                                                         *)
(* Ratings are exact rationals <<numerator, denominator>>; binary64        *)
(* rounding is not modelled, except where it changes the control flow:     *)
(* np.exp underflowing to 0.0 and the 16-bit reward arrays wrapping.       *)
(***************************************************************************)
EXTENDS Integers, Sequences, FiniteSets, TLC

\* ------------------------------------------------------------------ bounds

\* Largest --num_games the command is started with.
MaxGames == 2

\* Longest trace (env.steps[1:]) the engine returns.
MaxSteps == 2

\* ------------------------------------------------------- program constants

\* find_new_scores(ra, rb, result, k=32)
K == 32

\* 10 ** (a / 400)
EloScale == 400

EloBase == 10

\* np.zeros(num_steps, dtype=np.uint16)
RewardBits == 16

\* np.exp(x) is 0.0 in binary64 for x below -745.13 (= 1075 * ln 2).
ExpUnderflow == <<74513, 100>>

\* ------------------------------------------------------- exact arithmetic

Abs(x) == IF x < 0 THEN -x ELSE x

RECURSIVE GCD(_, _)
GCD(a, b) == IF b = 0 THEN a ELSE GCD(b, a % b)

\* The rational n / d (d > 0) in lowest terms.
Rat(n, d) == LET g == GCD(Abs(n), d) IN <<n \div g, d \div g>>

Num(n) == <<n, 1>>

RAdd(x, y) ==
    LET l == (x[2] \div GCD(x[2], y[2])) * y[2]
    IN Rat(x[1] * (l \div x[2]) + y[1] * (l \div y[2]), l)

RNeg(x) == <<-x[1], x[2]>>

RSub(x, y) == RAdd(x, RNeg(y))

RMul(x, y) ==
    LET g1 == GCD(Abs(x[1]), y[2])
        g2 == GCD(Abs(y[1]), x[2])
    IN Rat((x[1] \div g1) * (y[1] \div g2), (x[2] \div g2) * (y[2] \div g1))

\* x / y for y > 0.
RDiv(x, y) == RMul(x, <<y[2], y[1]>>)

\* a / b < c / d for b, d > 0, by integer parts and then the reciprocals of
\* the fractional parts: no product is formed.
RECURSIVE FracLess(_, _, _, _)
FracLess(a, b, c, d) ==
    IF a \div b # c \div d THEN a \div b < c \div d
    ELSE IF c % d = 0 THEN FALSE
    ELSE IF a % b = 0 THEN TRUE
    ELSE FracLess(d, c % d, b, a % b)

RLess(x, y) == FracLess(x[1], x[2], y[1], y[2])

RFloor(x) == x[1] \div x[2]

RECURSIVE RSum(_, _)
RSum(f, S) ==
    IF S = {} THEN Num(0)
    ELSE LET a == CHOOSE a \in S : TRUE IN RAdd(f[a], RSum(f, S \ {a}))

\* ------------------------------------------------------------ Elo update

Results == {"LEFT_WON", "RIGHT_WON", "DRAW"}

\* 10 ** (a / 400). The power is irrational off the 400-point grid; it is
\* evaluated at the grid point at or below a, which is exact on the grid
\* and keeps every q positive. Ratings of the model stay non-negative.
Pow10(a) == EloBase ^ RFloor(RDiv(a, Num(EloScale)))

\* Faulty variant: qa / s returned for both agents.
expected_scores_same_q(a, b) ==
    LET qa == Pow10(a)
        qb == Pow10(b)
        s == qa + qb
    IN <<Rat(qa, s), Rat(qa, s)>>

expected_scores(a, b) ==
    LET qa == Pow10(a)
        qb == Pow10(b)
        s == qa + qb
    IN <<Rat(qa, s), Rat(qb, s)>>

\* Faulty variant: the winner's and the loser's actual scores exchanged.
actual_scores_swapped(result) ==
    CASE result = "LEFT_WON" -> <<Num(0), Num(1)>>
      [] result = "RIGHT_WON" -> <<Num(1), Num(0)>>
      [] result = "DRAW" -> <<Rat(1, 2), Rat(1, 2)>>

\* The (sa, sb) of find_new_scores' if/elif chain.
actual_scores(result) ==
    CASE result = "LEFT_WON" -> <<Num(1), Num(0)>>
      [] result = "RIGHT_WON" -> <<Num(0), Num(1)>>
      [] result = "DRAW" -> <<Rat(1, 2), Rat(1, 2)>>

\* What a call does: it returns a tuple, or raises and returns nothing.
Returned(v) == [raised |-> "none", value |-> v]

Raised(e) == [raised |-> e, value |-> <<>>]

\* Faulty variant: rb + k * (sa - eb), sa written for sb.
find_new_scores_sa_twice(ra, rb, result) ==
    LET e == expected_scores(ra, rb)
    IN IF result \notin Results
       THEN Raised("UnknownResult")
       ELSE LET s == actual_scores(result)
            IN Returned(<<RAdd(ra, RMul(Num(K), RSub(s[1], e[1]))),
                          RAdd(rb, RMul(Num(K), RSub(s[1], e[2])))>>)

find_new_scores(ra, rb, result) ==
    LET e == expected_scores(ra, rb)
    IN IF result \notin Results
       THEN Raised("UnknownResult")
       ELSE LET s == actual_scores(result)
            IN Returned(<<RAdd(ra, RMul(Num(K), RSub(s[1], e[1]))),
                          RAdd(rb, RMul(Num(K), RSub(s[2], e[2])))>>)

\* ------------------------------------------------------------ matchmaking

\* Faulty variant: the agents sorted by descending rating.
RankDescending(pool, a) ==
    1 + Cardinality({b \in DOMAIN pool :
                       \/ RLess(pool[a], pool[b])
                       \/ pool[b] = pool[a] /\ b < a})

\* Position of a in sorted(agent_to_rating, key=rating), from 1: the sort is
\* stable, equal ratings keep the order of the mapping (ascending id).
Rank(pool, a) ==
    1 + Cardinality({b \in DOMAIN pool :
                       \/ RLess(pool[b], pool[a])
                       \/ pool[b] = pool[a] /\ b < a})

\* probability = [p / n for p in probability], n = sum(probability).
first_probability(pool) ==
    LET weight == [a \in DOMAIN pool |-> Num(Rank(pool, a))]
        n == RSum(weight, DOMAIN pool)
    IN [a \in DOMAIN pool |-> RDiv(weight[a], n)]

\* np.random.choice(agents, p=probability): any agent of positive probability.
random_choice(probability) ==
    {a \in DOMAIN probability : probability[a][1] > 0}

choice_first_agent(pool) == random_choice(first_probability(pool))

\* np.std(values) ** 2: the population variance.
Variance(pool) ==
    LET n == Num(Cardinality(DOMAIN pool))
        mean == RDiv(RSum(pool, DOMAIN pool), n)
        sq == [a \in DOMAIN pool |->
                 RMul(RSub(pool[a], mean), RSub(pool[a], mean))]
    IN RDiv(RSum(sq, DOMAIN pool), n)

\* Whether p(x) = np.exp(-(x - target_rating) ** 2 / (2 * std ** 2)) is 0.0.
WeightIsZero(x, target_rating, var) ==
    LET d == RSub(x, target_rating)
    IN RLess(ExpUnderflow, RDiv(RMul(d, d), RMul(Num(2), var)))

\* The outcomes of __choice_second_agent. An empty mapping has std nan, which
\* is truthy, and zip(*[]) then fails to unpack. When every weight is 0.0, n
\* is 0.0, every p / n is nan and np.random.choice raises ValueError
\* ("probabilities contain NaN"). A weight of 0.0 beside positive ones is
\* never drawn.
choice_second_agent(others, target_rating) ==
    IF DOMAIN others = {} THEN {Raised("ValueError")}
    ELSE LET var == Variance(others)
             positive == {a \in DOMAIN others :
                            ~WeightIsZero(others[a], target_rating, var)}
         IN IF var[1] = 0
            THEN {Returned(<<a>>) : a \in DOMAIN others}
            ELSE IF positive = {}
            THEN {Raised("ValueError")}
            ELSE {Returned(<<a>>) : a \in positive}

\* Faulty variant: the pool check off by one.
PoolTooSmallOffByOne(pool) == Cardinality(DOMAIN pool) < 1

\* len(agent_to_rating) < 2
PoolTooSmall(pool) == Cardinality(DOMAIN pool) < 2

\* others = {i: r for i, r in agent_to_rating.items() if i != a1}
Others(pool, a1) == [i \in DOMAIN pool \ {a1} |-> pool[i]]

\* out = [a1, a2]; np.random.shuffle(out): either order.
Shuffled(a1, a2) == {<<a1, a2>>, <<a2, a1>>}

\* The outcomes of choice_agents_for_game over the eligible pool.
choice_agents_for_game(pool) ==
    IF PoolTooSmall(pool) THEN {Raised("InsufficientPool")}
    ELSE UNION {UNION {IF o.raised # "none" THEN {o}
                       ELSE {Returned(out) : out \in Shuffled(a1, o.value[1])} :
                       o \in choice_second_agent(Others(pool, a1), pool[a1])} :
                a1 \in choice_first_agent(pool)}

\* ------------------------------------------------------------------ state

\* Agent primary keys a caller may name; a row may be missing.
AllIds == {1, 2, 3}

\* Two invocations of the command may share the database.
Procs == {1, 2}

\* Ratings the Agent rows start with.
RatingValues == {Num(400), Num(421)}

\* A wider set for the matchmaker taken alone.
PoolRatingValues == {Num(400), Num(401), Num(421)}

\* Ratings find_new_scores is called with when taken alone.
EloRatingValues == {Num(0), Num(400), Num(416), Num(800), Num(1200)}

\* Cumulative rewards an engine step may report.
RewardValues == {0, 1, 2 ^ RewardBits}

SmallRewardValues == {0, 1}

VARIABLES
    rating,         \* Agent.rating of every row
    status,         \* per id: "absent", "disabled" or "enabled" (with a file)
    games_created,  \* Game.objects.create calls so far
    engine_resets,  \* env.reset() calls so far
    engine_runs,    \* env.run() calls so far
    pc,             \* where each command invocation or call stands
    mode,           \* what was invoked: "handle", "run_game", "choice"
    num_games,      \* options["num_games"]
    c,              \* handle's counter
    args,           \* run_game's (left_agent_id, right_agent_id)
    left_agent,     \* run_game's local Agent object
    right_agent,
    game,           \* run_game's Game object
    err,            \* the exception a call raised, "none" otherwise
    trace,          \* the rewards the engine reported in this match
    snap,           \* tables and engine counters when the attempt started
    rating0,        \* the ratings the rows started with
    credited,       \* per agent, the rating changes its finished matches computed
    overlap,        \* a run_game read ratings while another held unsaved ones
    elo_call,       \* arguments of a find_new_scores call taken alone
    elo_ret         \* and what it did

agent_vars == <<rating, status>>

engine_vars == <<games_created, engine_resets, engine_runs>>

handle_vars == <<mode, num_games, c>>

run_vars == <<args, left_agent, right_agent, game, trace>>

ghost_vars == <<snap, rating0, credited, overlap>>

elo_vars == <<elo_call, elo_ret>>

vars == <<rating, status, games_created, engine_resets, engine_runs, pc, mode,
          num_games, c, args, left_agent, right_agent, game, err, trace, snap,
          rating0, credited, overlap, elo_call, elo_ret>>

NoAgent == [id |-> 0, rating |-> Num(0)]

NoGame ==
    [left |-> 0, right |-> 0,
     left_current_rating |-> Num(0), right_current_rating |-> Num(0),
     status |-> "none", result |-> "none",
     left_rewards |-> <<>>, right_rewards |-> <<>>,
     left_new_rating |-> Num(0), right_new_rating |-> Num(0)]

NoSnap == [rating |-> <<>>, games |-> 0, resets |-> 0, runs |-> 0]

Snapshot ==
    [rating |-> rating, games |-> games_created, resets |-> engine_resets,
     runs |-> engine_runs]

\* Agent.objects.filter(file__isnull=False, enabled=True).values_list("id", "rating")
agent_to_rating ==
    [a \in {i \in AllIds : status[i] = "enabled"} |-> rating[a]]

InitWith(values) ==
    /\ status \in [AllIds -> {"absent", "disabled", "enabled"}]
    /\ rating \in [AllIds -> values]
    /\ \A a \in AllIds : status[a] = "absent" => rating[a] = Num(400)
    /\ rating0 = rating
    /\ games_created = 0
    /\ engine_resets = 0
    /\ engine_runs = 0
    /\ pc = [p \in Procs |-> "idle"]
    /\ mode = [p \in Procs |-> "none"]
    /\ num_games = [p \in Procs |-> 0]
    /\ c = [p \in Procs |-> 0]
    /\ args = [p \in Procs |-> <<0, 0>>]
    /\ left_agent = [p \in Procs |-> NoAgent]
    /\ right_agent = [p \in Procs |-> NoAgent]
    /\ game = [p \in Procs |-> NoGame]
    /\ err = [p \in Procs |-> "none"]
    /\ trace = [p \in Procs |-> <<>>]
    /\ snap = [p \in Procs |-> NoSnap]
    /\ credited = [a \in AllIds |-> Num(0)]
    /\ overlap = FALSE
    /\ elo_call = <<>>
    /\ elo_ret = Raised("pending")

Init == InitWith(RatingValues)

\* ------------------------------------------------------------- the engine

\* Reward columns of a trace of n steps: the running total of each agent.
RewardSeqs(values, n) ==
    {s \in [1..n -> values] : \A i \in 1..(n - 1) : s[i] <= s[i + 1]}

\* env.steps[1:] as <<left reward, right reward>> per step.
Traces(values, maxlen) ==
    UNION {{[i \in 1..n |-> <<l[i], r[i]>>] :
            l \in RewardSeqs(values, n), r \in RewardSeqs(values, n)} :
           n \in 1..maxlen}

\* An assignment into an np.uint16 array keeps the low 16 bits.
Uint16(x) == x % (2 ^ RewardBits)

\* left_rewards[i], right_rewards[i] = left_env["reward"], right_env["reward"]
StoredRewards(tr, side) == [i \in 1..Len(tr) |-> Uint16(tr[i][side])]

\* left_rewards[-1]
Last(arr) == arr[Len(arr)]

DeriveResult(left_total_reward, right_total_reward) ==
    IF left_total_reward > right_total_reward THEN "LEFT_WON"
    ELSE IF left_total_reward < right_total_reward THEN "RIGHT_WON"
    ELSE "DRAW"

\* ------------------------------------------------------------- the actions

Raise(p, e, to) ==
    /\ err' = [err EXCEPT ![p] = e]
    /\ pc' = [pc EXCEPT ![p] = to]

\* A run_game that reads ratings while another holds ratings it has read and
\* not yet written back.
Holding == {"rg_right", "rg_create", "rg_run", "rg_save_left", "rg_save_right"}

ReadsBesideHolder(p) == \E q \in Procs \ {p} : pc[q] \in Holding

\* handle: num_games = options["num_games"]; c = 1; env = make("mab").
StartHandle(p, n) ==
    /\ pc[p] = "idle"
    /\ mode' = [mode EXCEPT ![p] = "handle"]
    /\ num_games' = [num_games EXCEPT ![p] = n]
    /\ c' = [c EXCEPT ![p] = 1]
    /\ pc' = [pc EXCEPT ![p] = "loop"]
    /\ UNCHANGED <<agent_vars, engine_vars, run_vars, err, ghost_vars, elo_vars>>

\* while c <= num_games
LoopTest(p) ==
    /\ pc[p] = "loop"
    /\ IF c[p] <= num_games[p]
       THEN /\ pc' = [pc EXCEPT ![p] = "choose"]
            /\ snap' = [snap EXCEPT ![p] = Snapshot]
       ELSE /\ pc' = [pc EXCEPT ![p] = "done"]
            /\ UNCHANGED snap
    /\ UNCHANGED <<agent_vars, engine_vars, handle_vars, run_vars, err,
                   rating0, credited, overlap, elo_vars>>

\* A call of choice_agents_for_game by another caller than handle.
CallChoice(p) ==
    /\ pc[p] = "idle"
    /\ mode' = [mode EXCEPT ![p] = "choice"]
    /\ pc' = [pc EXCEPT ![p] = "choose"]
    /\ snap' = [snap EXCEPT ![p] = Snapshot]
    /\ UNCHANGED <<agent_vars, engine_vars, num_games, c, run_vars, err,
                   rating0, credited, overlap, elo_vars>>

\* choice_agents_for_game(). handle calls it outside its try: what it raises
\* ends the command.
Choice(p) ==
    /\ pc[p] = "choose"
    /\ \E o \in choice_agents_for_game(agent_to_rating) :
          IF o.raised # "none"
          THEN /\ Raise(p, o.raised,
                        IF mode[p] = "handle" THEN "crashed" ELSE "raised")
               /\ UNCHANGED args
          ELSE /\ args' = [args EXCEPT ![p] = o.value]
               /\ pc' = [pc EXCEPT ![p] =
                            IF mode[p] = "handle" THEN "rg_check" ELSE "returned"]
               /\ UNCHANGED err
    /\ UNCHANGED <<agent_vars, engine_vars, handle_vars, left_agent,
                   right_agent, game, trace, ghost_vars, elo_vars>>

\* A call of run_game by another caller than handle, with any two ids.
CallRunGame(p, l, r) ==
    /\ pc[p] = "idle"
    /\ mode' = [mode EXCEPT ![p] = "run_game"]
    /\ args' = [args EXCEPT ![p] = <<l, r>>]
    /\ pc' = [pc EXCEPT ![p] = "rg_check"]
    /\ snap' = [snap EXCEPT ![p] = Snapshot]
    /\ UNCHANGED <<agent_vars, engine_vars, num_games, c, left_agent,
                   right_agent, game, trace, err, rating0, credited, overlap,
                   elo_vars>>

\* Faulty variant: the comparison of the two ids left out.
CheckDistinctSkipped(p) ==
    /\ pc[p] = "rg_check"
    /\ pc' = [pc EXCEPT ![p] = "rg_left"]
    /\ UNCHANGED <<agent_vars, engine_vars, handle_vars, run_vars, err,
                   ghost_vars, elo_vars>>

\* if left_agent_id == right_agent_id: raise ValueError
CheckDistinct(p) ==
    /\ pc[p] = "rg_check"
    /\ IF args[p][1] = args[p][2]
       THEN Raise(p, "DuplicateAgent", "raised")
       ELSE pc' = [pc EXCEPT ![p] = "rg_left"] /\ UNCHANGED err
    /\ UNCHANGED <<agent_vars, engine_vars, handle_vars, run_vars, ghost_vars,
                   elo_vars>>

\* left_agent = Agent.objects.filter(id=left_agent_id).first()
FindLeft(p) ==
    /\ pc[p] = "rg_left"
    /\ IF status[args[p][1]] = "absent"
       THEN /\ Raise(p, "UnknownAgent", "raised")
            /\ UNCHANGED <<left_agent, overlap>>
       ELSE /\ left_agent' = [left_agent EXCEPT ![p] =
                    [id |-> args[p][1], rating |-> rating[args[p][1]]]]
            /\ overlap' = (overlap \/ ReadsBesideHolder(p))
            /\ pc' = [pc EXCEPT ![p] = "rg_right"]
            /\ UNCHANGED err
    /\ UNCHANGED <<agent_vars, engine_vars, handle_vars, args, right_agent,
                   game, trace, snap, rating0, credited, elo_vars>>

\* right_agent = Agent.objects.filter(id=right_agent_id).first()
FindRight(p) ==
    /\ pc[p] = "rg_right"
    /\ IF status[args[p][2]] = "absent"
       THEN /\ Raise(p, "UnknownAgent", "raised")
            /\ UNCHANGED <<right_agent, overlap>>
       ELSE /\ right_agent' = [right_agent EXCEPT ![p] =
                    [id |-> args[p][2], rating |-> rating[args[p][2]]]]
            /\ overlap' = (overlap \/ ReadsBesideHolder(p))
            /\ pc' = [pc EXCEPT ![p] = "rg_create"]
            /\ UNCHANGED err
    /\ UNCHANGED <<agent_vars, engine_vars, handle_vars, args, left_agent,
                   game, trace, snap, rating0, credited, elo_vars>>

\* env.reset(); game = Game.objects.create(...)
CreateGame(p) ==
    /\ pc[p] = "rg_create"
    /\ engine_resets' = engine_resets + 1
    /\ games_created' = games_created + 1
    /\ game' = [game EXCEPT ![p] =
           [NoGame EXCEPT !.left = left_agent[p].id,
                          !.right = right_agent[p].id,
                          !.left_current_rating = left_agent[p].rating,
                          !.right_current_rating = right_agent[p].rating,
                          !.status = "created"]]
    /\ pc' = [pc EXCEPT ![p] = "rg_run"]
    /\ UNCHANGED <<agent_vars, engine_runs, handle_vars, args, left_agent,
                   right_agent, trace, err, ghost_vars, elo_vars>>

\* env.run([...]) returning the trace tr, then everything up to game.save():
\* the reward arrays, the result, find_new_scores and the Game row's fields.
PlayGame(p, tr) ==
    /\ pc[p] = "rg_run"
    /\ engine_runs' = engine_runs + 1
    /\ trace' = [trace EXCEPT ![p] = tr]
    /\ LET left_rewards == StoredRewards(tr, 1)
           right_rewards == StoredRewards(tr, 2)
           result == DeriveResult(Last(left_rewards), Last(right_rewards))
           o == find_new_scores(left_agent[p].rating, right_agent[p].rating,
                                result)
       IN IF o.raised # "none"
          THEN Raise(p, o.raised, "raised") /\ UNCHANGED game
          ELSE /\ game' = [game EXCEPT ![p] =
                      [@ EXCEPT !.left_rewards = left_rewards,
                                !.right_rewards = right_rewards,
                                !.result = result,
                                !.status = "FINISHED",
                                !.left_new_rating = o.value[1],
                                !.right_new_rating = o.value[2]]]
               /\ pc' = [pc EXCEPT ![p] = "rg_save_left"]
               /\ UNCHANGED err
    /\ UNCHANGED <<agent_vars, games_created, engine_resets, handle_vars, args,
                   left_agent, right_agent, ghost_vars, elo_vars>>

\* env.run raises, or a step carries no reward to store: the match fails
\* after its Game row was created.
EngineRaise(p) ==
    /\ pc[p] = "rg_run"
    /\ engine_runs' = engine_runs + 1
    /\ Raise(p, "EngineError", "raised")
    /\ UNCHANGED <<agent_vars, games_created, engine_resets, handle_vars,
                   run_vars, ghost_vars, elo_vars>>

\* left_agent.rating = left_new_score; left_agent.save(update_fields=["rating"])
SaveLeft(p) ==
    /\ pc[p] = "rg_save_left"
    /\ left_agent' = [left_agent EXCEPT ![p].rating = game[p].left_new_rating]
    /\ rating' = [rating EXCEPT ![left_agent[p].id] = game[p].left_new_rating]
    /\ credited' = [credited EXCEPT ![left_agent[p].id] =
           RAdd(@, RSub(game[p].left_new_rating, game[p].left_current_rating))]
    /\ pc' = [pc EXCEPT ![p] = "rg_save_right"]
    /\ UNCHANGED <<status, engine_vars, handle_vars, args, right_agent, game,
                   trace, err, snap, rating0, overlap, elo_vars>>

\* Faulty variant: left_new_score saved as the right agent's rating.
SaveRightLeftScore(p) ==
    /\ pc[p] = "rg_save_right"
    /\ right_agent' = [right_agent EXCEPT ![p].rating = game[p].left_new_rating]
    /\ rating' = [rating EXCEPT ![right_agent[p].id] = game[p].left_new_rating]
    /\ credited' = [credited EXCEPT ![right_agent[p].id] =
           RAdd(@, RSub(game[p].right_new_rating, game[p].right_current_rating))]
    /\ pc' = [pc EXCEPT ![p] = "returned"]
    /\ UNCHANGED <<status, engine_vars, handle_vars, args, left_agent, game,
                   trace, err, snap, rating0, overlap, elo_vars>>

\* right_agent.rating = right_new_score; right_agent.save(update_fields=["rating"])
SaveRight(p) ==
    /\ pc[p] = "rg_save_right"
    /\ right_agent' = [right_agent EXCEPT ![p].rating = game[p].right_new_rating]
    /\ rating' = [rating EXCEPT ![right_agent[p].id] = game[p].right_new_rating]
    /\ credited' = [credited EXCEPT ![right_agent[p].id] =
           RAdd(@, RSub(game[p].right_new_rating, game[p].right_current_rating))]
    /\ pc' = [pc EXCEPT ![p] = "returned"]
    /\ UNCHANGED <<status, engine_vars, handle_vars, args, left_agent, game,
                   trace, err, snap, rating0, overlap, elo_vars>>

\* except Exception as e: self.stdout.write(...); return
HandleExcept(p) ==
    /\ pc[p] = "raised"
    /\ mode[p] = "handle"
    /\ pc' = [pc EXCEPT ![p] = "done"]
    /\ UNCHANGED <<agent_vars, engine_vars, handle_vars, run_vars, err,
                   ghost_vars, elo_vars>>

\* self.stdout.write(f"{c}/{num_games} - {game}"); c += 1. run_game's locals
\* are gone and game is rebound by the next iteration.
HandleNext(p) ==
    /\ pc[p] = "returned"
    /\ mode[p] = "handle"
    /\ c' = [c EXCEPT ![p] = @ + 1]
    /\ pc' = [pc EXCEPT ![p] = "loop"]
    /\ args' = [args EXCEPT ![p] = <<0, 0>>]
    /\ left_agent' = [left_agent EXCEPT ![p] = NoAgent]
    /\ right_agent' = [right_agent EXCEPT ![p] = NoAgent]
    /\ game' = [game EXCEPT ![p] = NoGame]
    /\ trace' = [trace EXCEPT ![p] = <<>>]
    /\ UNCHANGED <<agent_vars, engine_vars, mode, num_games, err, ghost_vars,
                   elo_vars>>

\* A call of find_new_scores taken alone, with any result tag.
CallFindNewScores(ra, rb, result) ==
    /\ elo_ret.raised = "pending"
    /\ elo_call' = <<ra, rb, result>>
    /\ elo_ret' = find_new_scores(ra, rb, result)
    /\ UNCHANGED <<agent_vars, engine_vars, pc, handle_vars, run_vars, err,
                   ghost_vars>>

\* ------------------------------------------------------- specifications

\* The steps of one run_game execution.
RunGameStep(p, traces) ==
    \/ CheckDistinct(p)
    \/ FindLeft(p)
    \/ FindRight(p)
    \/ CreateGame(p)
    \/ \E tr \in traces : PlayGame(p, tr)
    \/ EngineRaise(p)
    \/ SaveLeft(p)
    \/ SaveRight(p)

\* One invocation of the command, or one direct call of run_game.
Next ==
    \/ \E n \in 0..MaxGames : StartHandle(1, n)
    \/ LoopTest(1)
    \/ Choice(1)
    \/ HandleExcept(1)
    \/ HandleNext(1)
    \/ \E l, r \in AllIds : CallRunGame(1, l, r)
    \/ RunGameStep(1, Traces(RewardValues, MaxSteps))

Spec == Init /\ [][Next]_vars

\* Two run_game executions sharing the Agent table, nothing serialising them.
InitConc == Init /\ \A a \in AllIds : status[a] = "enabled"

NextConc ==
    \E p \in Procs :
        \/ \E l, r \in AllIds : CallRunGame(p, l, r)
        \/ RunGameStep(p, Traces(SmallRewardValues, 1))

SpecConc == InitConc /\ [][NextConc]_vars

\* choice_agents_for_game taken alone, over every pool of up to three agents.
InitMatch == InitWith(PoolRatingValues)

NextMatch == CallChoice(1) \/ Choice(1)

SpecMatch == InitMatch /\ [][NextMatch]_vars

\* find_new_scores taken alone.
InitElo == Init /\ \A a \in AllIds : status[a] = "enabled" /\ rating[a] = Num(400)

NextElo ==
    \E ra, rb \in EloRatingValues, result \in Results \cup {"UNKNOWN"} :
        CallFindNewScores(ra, rb, result)

SpecElo == InitElo /\ [][NextElo]_vars

\* ------------------------------------------------------------- the claims

\* The engine's totals of the match process p played: the last step's rewards.
LeftTotal(p) == trace[p][Len(trace[p])][1]

RightTotal(p) == trace[p][Len(trace[p])][2]

Played(p) == game[p].status = "FINISHED"

\* C1: for every pool of at least 2 agents and every outcome of the draws,
\* choice_agents_for_game returns two different identifiers, both keys of the
\* pool.
C1_AlwaysReturnsPair ==
    \A p \in Procs :
        (/\ mode[p] = "choice"
         /\ pc[p] \in {"returned", "raised"}
         /\ Cardinality(DOMAIN agent_to_rating) >= 2)
        => /\ err[p] = "none"
           /\ args[p][1] # args[p][2]
           /\ {args[p][1], args[p][2]} \subseteq DOMAIN agent_to_rating

\* C2: with a pool of fewer than 2 agents the attempt fails with the
\* insufficient-pool error, no pairing is returned, and no Game row is
\* created, no rating changes and the engine is not invoked for it.
C2_InsufficientPool ==
    \A p \in Procs :
        (mode[p] = "handle" /\ Cardinality(DOMAIN agent_to_rating) < 2)
        => /\ pc[p] \in {"loop", "choose", "crashed", "done"}
           /\ pc[p] = "done" => num_games[p] = 0
           /\ pc[p] = "crashed" =>
                 /\ err[p] = "InsufficientPool"
                 /\ args[p] = <<0, 0>>
                 /\ game[p] = NoGame
                 /\ games_created = snap[p].games
                 /\ engine_resets = snap[p].resets
                 /\ engine_runs = snap[p].runs
                 /\ rating = snap[p].rating

\* A pool of one agent: the first attempt of handle has failed.
C2_Witness ==
    /\ pc[1] = "crashed"
    /\ err[1] = "InsufficientPool"
    /\ Cardinality(DOMAIN agent_to_rating) = 1

\* C3: for every pair of ratings and each of the three results, the two
\* rating changes of find_new_scores cancel, the actual scores sum to 1 and
\* the expected scores sum to 1.
C3_ZeroSum ==
    elo_ret.raised = "none" =>
        LET ra == elo_call[1]
            rb == elo_call[2]
            e == expected_scores(ra, rb)
            s == actual_scores(elo_call[3])
        IN /\ RSub(elo_ret.value[1], ra) = RNeg(RSub(elo_ret.value[2], rb))
           /\ RAdd(s[1], s[2]) = Num(1)
           /\ RAdd(e[1], e[2]) = Num(1)

\* A win of the lower-rated agent that moved its rating.
C3_Witness ==
    /\ elo_ret.raised = "none"
    /\ elo_call[3] = "LEFT_WON"
    /\ RLess(elo_call[1], elo_call[2])
    /\ elo_ret.value[1] # elo_call[1]

\* C4: find_new_scores raises the unknown-result error and returns nothing
\* for a tag outside the three defined ones, leaving the ratings as they
\* were; for LEFT_WON, RIGHT_WON and DRAW it returns, having used the actual
\* scores (1, 0), (0, 1) and (1/2, 1/2).
C4_ResultTags ==
    elo_ret.raised # "pending" =>
        LET ra == elo_call[1]
            rb == elo_call[2]
            tag == elo_call[3]
            e == expected_scores(ra, rb)
            sa == IF tag = "LEFT_WON" THEN Num(1)
                  ELSE IF tag = "RIGHT_WON" THEN Num(0) ELSE Rat(1, 2)
            sb == IF tag = "LEFT_WON" THEN Num(0)
                  ELSE IF tag = "RIGHT_WON" THEN Num(1) ELSE Rat(1, 2)
        IN IF tag \in {"LEFT_WON", "RIGHT_WON", "DRAW"}
           THEN /\ elo_ret.raised = "none"
                /\ elo_ret.value =
                      <<RAdd(ra, RMul(Num(K), RSub(sa, e[1]))),
                        RAdd(rb, RMul(Num(K), RSub(sb, e[2])))>>
           ELSE /\ elo_ret.raised = "UnknownResult"
                /\ elo_ret.value = <<>>
                /\ rating = rating0

\* A call with the tag "UNKNOWN" has raised.
C4_Witness == elo_ret.raised = "UnknownResult" /\ elo_call[3] = "UNKNOWN"

\* C5: the result of a played match is LEFT_WON exactly when the left agent's
\* total reward over the trace is strictly greater, RIGHT_WON exactly when it
\* is strictly smaller and DRAW exactly when the totals are equal, for every
\* trace.
C5_ResultFromTotals ==
    \A p \in Procs :
        Played(p) =>
            /\ game[p].result = "LEFT_WON" <=> LeftTotal(p) > RightTotal(p)
            /\ game[p].result = "RIGHT_WON" <=> LeftTotal(p) < RightTotal(p)
            /\ game[p].result = "DRAW" <=> LeftTotal(p) = RightTotal(p)

\* C6: run_game called with one identifier for both slots, or with an
\* identifier that has no row, raises before the engine is reset or run,
\* with no Game row created and no rating changed.
C6_EarlyFailure ==
    \A p \in Procs :
        (/\ mode[p] \in {"handle", "run_game"}
         /\ args[p] # <<0, 0>>
         /\ pc[p] \notin {"rg_check", "rg_left", "rg_right"}
         /\ \/ args[p][1] = args[p][2]
            \/ status[args[p][1]] = "absent"
            \/ status[args[p][2]] = "absent")
        => /\ pc[p] = "raised"
           /\ err[p] = IF args[p][1] = args[p][2]
                       THEN "DuplicateAgent" ELSE "UnknownAgent"
           /\ game[p] = NoGame
           /\ games_created = snap[p].games
           /\ engine_resets = snap[p].resets
           /\ engine_runs = snap[p].runs
           /\ rating = snap[p].rating

\* The left agent was found and the right one has no row.
C6_Witness ==
    /\ pc[1] = "raised"
    /\ err[1] = "UnknownAgent"
    /\ left_agent[1].id # 0
    /\ status[args[1][2]] = "absent"

\* C7: over a pool with pairwise distinct ratings the first-agent selection
\* probability of an agent is its rank in ascending rating order over
\* N(N+1)/2, so a higher rating never has a lower probability, and the
\* probabilities are positive and sum to 1.
C7_RankWeights ==
    LET pool == agent_to_rating
        n == Cardinality(DOMAIN pool)
        prob == first_probability(pool)
    IN (/\ mode[1] = "choice"
        /\ pc[1] \in {"returned", "raised"}
        /\ n >= 2
        /\ \A a, b \in DOMAIN pool : a # b => pool[a] # pool[b])
       => /\ \A a \in DOMAIN pool :
                /\ prob[a] =
                      Rat(1 + Cardinality({b \in DOMAIN pool :
                                             RLess(pool[b], pool[a])}),
                          (n * (n + 1)) \div 2)
                /\ prob[a][1] > 0
          /\ \A a, b \in DOMAIN pool :
                RLess(pool[a], pool[b]) => ~RLess(prob[b], prob[a])
          /\ RSum(prob, DOMAIN pool) = Num(1)

\* A pair was drawn from three agents of pairwise distinct ratings.
C7_Witness ==
    /\ mode[1] = "choice"
    /\ pc[1] = "returned"
    /\ Cardinality(DOMAIN agent_to_rating) = 3
    /\ RLess(rating[2], rating[3])
    /\ RLess(rating[3], rating[1])

\* The ratings run_game stores for its left and right agent, from their
\* ratings and the totals the engine reported.
StoredRatings(left_rating, right_rating, left_total, right_total) ==
    find_new_scores(left_rating, right_rating,
                    DeriveResult(Uint16(left_total), Uint16(right_total))).value

\* C8: a finished run_game(X, Y) has stored for X and Y the ratings
\* run_game(Y, X) stores for them from the same ratings and totals, the agent
\* with the strictly greater total is stored above its pre-match rating and
\* the other below its own.
C8_DeltaFollowsAgent ==
    \A p \in Procs :
        (Played(p) /\ pc[p] = "returned") =>
            LET g == game[p]
                swapped == StoredRatings(g.right_current_rating,
                                         g.left_current_rating,
                                         RightTotal(p), LeftTotal(p))
            IN /\ rating[g.left] = swapped[2]
               /\ rating[g.right] = swapped[1]
               /\ LeftTotal(p) > RightTotal(p) =>
                     /\ RLess(g.left_current_rating, rating[g.left])
                     /\ RLess(rating[g.right], g.right_current_rating)
               /\ LeftTotal(p) < RightTotal(p) =>
                     /\ RLess(rating[g.left], g.left_current_rating)
                     /\ RLess(g.right_current_rating, rating[g.right])

\* Every run_game has returned, raised or not started.
Quiescent == \A p \in Procs : pc[p] \in {"idle", "returned", "raised"}

KeepsEveryUpdate ==
    \A a \in AllIds : rating[a] = RAdd(rating0[a], credited[a])

\* C9: when the run_game executions ran strictly one after the other, every
\* agent's stored rating carries the rating change of each of its matches;
\* interleaved executions can lose one (the witness).
C9_SequentialKeepsUpdates == (Quiescent /\ ~overlap) => KeepsEveryUpdate

\* Both executions finished, agent a played in both, both read its initial
\* rating, and its stored rating carries the change of one of them only.
C9_LostUpdate ==
    /\ pc[1] = "returned"
    /\ pc[2] = "returned"
    /\ overlap
    /\ \E a \in AllIds :
          /\ a \in {args[1][1], args[1][2]}
          /\ a \in {args[2][1], args[2][2]}
          /\ \A p \in Procs :
                rating0[a] = IF game[p].left = a
                             THEN game[p].left_current_rating
                             ELSE game[p].right_current_rating
          /\ \E p \in Procs :
                LET new == IF game[p].left = a THEN game[p].left_new_rating
                           ELSE game[p].right_new_rating
                IN /\ new # rating0[a]
                   /\ rating[a] = new
                   /\ rating[a] # RAdd(rating0[a], credited[a])

\* C10: between the matches of one command invocation the stored ratings sum
\* to what they summed to at the start; when a match has completed, each
\* participant's stored rating is the new rating of the Game record, whose
\* pre-match rating is the one the participant had stored before the match.
C10_RatingsConserved ==
    /\ pc[1] # "rg_save_right" =>
          RSum(rating, AllIds) = RSum(rating0, AllIds)
    /\ (Played(1) /\ pc[1] = "returned") =>
          LET g == game[1]
          IN /\ rating[g.left] = g.left_new_rating
             /\ rating[g.right] = g.right_new_rating
             /\ g.left_current_rating = snap[1].rating[g.left]
             /\ g.right_current_rating = snap[1].rating[g.right]

\* The second match of an invocation has completed and moved ratings.
C10_Witness ==
    /\ mode[1] = "handle"
    /\ pc[1] = "returned"
    /\ c[1] = 2
    /\ rating[game[1].left] # rating0[game[1].left]
    /\ snap[1].rating # rating0

====
